---- MODULE Spec2Model ----
(***************************************************************************)
(* Task lifecycle and stem player of the trane frontend.                   *)
(*                                                                         *)
(*   AudioProcessor  (frontend/src/components/AudioProcessor.tsx):         *)
(*     the file list, the POST /entries/ submissions, one WebSocket per    *)
(*     created job and the tasks map ("Task Registry").                    *)
(*   AudioPlayer / WaveformVisualizer                                      *)
(*     (frontend/src/components/AudioPlayer/WaveformVisualizer.tsx):       *)
(*     the transport state, the <audio> element, the closures the effects  *)
(*     register, the mixer state.                                          *)
(***************************************************************************)
EXTENDS Integers, Sequences, FiniteSets, TLC

\* ------------------------------------------------------------------ bounds
MaxFiles == 1        \* longest file list explored
MaxJobs == 1         \* job ids the server hands out: 1..MaxJobs
MaxPosts == 1        \* POST /entries/ requests in flight at once
ProgressLevels == 2  \* progress values explored: 0, 100/L, .., 100

\* ------------------------------------------------------- AudioProcessor data
FileNames == {"song.wav"}
JobIds == 1..MaxJobs
Statuses == {"queued", "processing", "completed", "failed"}
ProgressValues == {(i * 100) \div ProgressLevels : i \in 0..ProgressLevels}

\* data.progress of a message that carries no progress field (JS undefined)
UndefinedProgress == -1
NoError == "undefined"
NoJob == 0

IsTerminal(status) == status \in {"completed", "failed"}

\* what the server may push on ws/progress/{taskId}/: {progress, status, error?}
Messages ==
    { [progress |-> p, status |-> s, error |-> NoError] :
        p \in ProgressValues, s \in Statuses \ {"failed"} }
    \cup { [progress |-> p, status |-> "failed", error |-> "out of memory"] :
        p \in ProgressValues \cup {UndefinedProgress} }

NoMessage == [progress |-> UndefinedProgress, status |-> "none", error |-> NoError]
NoTask == [progress |-> UndefinedProgress, status |-> "absent"]

\* a toast() call: title, the task it names, the error text it carries
Toast(title, job, error) == [title |-> title, job |-> job, error |-> error]
NoToast == Toast("none", NoJob, NoError)

VARIABLES
    files,          \* useState<File[]>: the selected files, in order
    inFlight,       \* POST /entries/ requests issued and not yet answered
    nextId,         \* the id the server gives the next created entry
    ws,             \* readyState of the WebSocket opened for each job id
    tasks,          \* useState<Map>: job id -> {progress, status}
    lastMsg,        \* the message most recently received on each job's socket
    inOrder,        \* every progress received on the socket so far was a number
                    \* and no smaller than the one before
    repeated,       \* at least two messages were received on the socket
    lastToast,      \* the most recent toast() call
    submitOutcome,  \* what the last handleSubmit call did
    mounted,        \* the AudioProcessor instance is mounted: its useState
                    \* cells exist and its setters have an effect
    \* AudioPlayer (components/AudioPlayer/WaveformVisualizer.tsx)
    currentTrackIndex,  \* useState(0), 0-based
    isPlaying,          \* useState(false)
    currentTime,        \* useState(0)
    duration,           \* useState(0)
    isLooping,          \* useState(false)
    audio,              \* the <audio> element: currentTime, duration, paused,
                        \* loop, volume
    mediaEvents,        \* play/pause events the element has queued, oldest first
    endedListener,      \* what the registered 'ended' listener closed over
    waveDuration,       \* the duration the waveform's 'interaction' listener
                        \* closed over
    soloedTrack,        \* useState<string | null>(null)
    mutedTracks,        \* useState<Set<string>>(new Set())
    trackVolumes,       \* useState: track name -> volume
    ev                  \* the player handler that ran last: op, arg, and the
                        \* soloed track before it ran

VARIABLES
    \* WaveformVisualizer (components/AudioPlayer/WaveformVisualizer.tsx)
    wvMounted,      \* a WaveformVisualizer instance is mounted
    audioUrl,       \* its audioUrl prop
    propCurrentTime,  \* its currentTime prop
    propDuration,   \* its duration prop
    wavesurferRef,  \* wavesurferRef.current: the WaveSurfer instance created
                    \* last, with the url it loaded, whether it is live (not
                    \* destroyed) and whether it has fired 'ready'
    liveInstances,  \* for each url, the WaveSurfer instances loaded with it
                    \* that were created and not destroyed
    isReady,        \* useState(false)
    lastSeek        \* the last seekTo call: the ratio asked for, as
                    \* numerator and denominator, and the instance it hit

VARIABLES
    \* auth store (store/auth), useAuth, ProtectedRoute, fetchAPI
    storage,        \* localStorage: access_token, refresh_token
    accessToken,    \* useAuthStore: accessToken
    refreshToken,   \* useAuthStore: refreshToken
    location,       \* the path of the route the router shows
    lastRequest,    \* the REST request issued last: operation and
                    \* Authorization header
    authEv          \* the auth step that ran last, and the path it asked for

VARIABLES
    \* PlaybackView (pages/PlaybackView)
    playbackView,   \* what the view renders: closed, loading, notFound, shown
    entry,          \* the data of useQuery(['entries', entryId])
    playbackTracks, \* the tracks array of the render
    dereferenced    \* the urls handed to a WaveformVisualizer (load) and to
                    \* the AudioPlayer (<audio src>) by the render

VARIABLES
    \* the polling pages: FileManager of trane-ui, and the DSP upload page
    pollPage,       \* which of the two pages this is
    pollMounted,    \* the page is shown (the DSP page always is)
    taskId,         \* FileManager: useState taskId; DSP page: the task of the
                    \* last upload
    pollStatus,     \* the status text shown, and the task whose poll set it
    result,         \* the result shown: the task it belongs to
    intervals,      \* the tasks whose setInterval timer is running
    polls,          \* for each task, the poll requests awaiting an answer
    serverStatus,   \* the status /dsp/result/{task}/ reports for each task
    stopped         \* the tasks whose loop has observed a terminal status or
                    \* a failed poll

VARIABLES
    \* AudioPlayer: the tracks prop and the global volume control
    trackCount,     \* tracks.length of the current render
    volume,         \* useState(1), in slider steps
    isMuted         \* useState(false)

procVars == <<files, inFlight, nextId, ws, tasks, lastMsg, inOrder,
              repeated, lastToast, submitOutcome, mounted>>

controlVars == <<trackCount, volume, isMuted>>

transportVars == <<currentTrackIndex, isPlaying, currentTime, duration,
                   isLooping, audio, mediaEvents, endedListener, waveDuration,
                   controlVars>>

mixerVars == <<soloedTrack, mutedTracks, trackVolumes>>

waveVars == <<wvMounted, audioUrl, propCurrentTime, propDuration,
              wavesurferRef, liveInstances, isReady, lastSeek>>

\* the state of the components other than AudioProcessor and AudioPlayer
authVars == <<storage, accessToken, refreshToken, location, lastRequest,
              authEv>>

viewVars == <<playbackView, entry, playbackTracks, dereferenced>>

pollVars == <<pollPage, pollMounted, taskId, pollStatus, result, intervals,
              polls, serverStatus, stopped>>

appVars == <<waveVars, authVars, viewVars, pollVars>>

vars == <<procVars, transportVars, mixerVars, ev, appVars>>

\* ------------------------------------------------------------ AudioProcessor
InitProcessor ==
    /\ files = <<>>
    /\ inFlight = 0
    /\ nextId = 1
    /\ ws = [j \in JobIds |-> "none"]
    /\ tasks = [j \in JobIds |-> NoTask]
    /\ lastMsg = [j \in JobIds |-> NoMessage]
    /\ inOrder = [j \in JobIds |-> TRUE]
    /\ repeated = [j \in JobIds |-> FALSE]
    /\ lastToast = NoToast
    /\ submitOutcome = "none"
    /\ mounted = TRUE

\* onDrop: setFiles(prev => [...prev, ...acceptedFiles])
OnDrop(f) ==
    /\ mounted
    /\ Len(files) < MaxFiles
    /\ files' = Append(files, f)
    /\ UNCHANGED <<inFlight, nextId, ws, tasks, lastMsg, inOrder,
                   repeated, lastToast, submitOutcome>>
    /\ UNCHANGED <<mounted, transportVars, mixerVars, ev, appVars>>

\* Remove button: setFiles(files.filter((_, i) => i !== index))
RemoveFile(index) ==
    /\ mounted
    /\ index \in 1..Len(files)
    /\ files' = [i \in 1..(Len(files) - 1) |->
                    IF i < index THEN files[i] ELSE files[i + 1]]
    /\ UNCHANGED <<inFlight, nextId, ws, tasks, lastMsg, inOrder,
                   repeated, lastToast, submitOutcome>>
    /\ UNCHANGED <<mounted, transportVars, mixerVars, ev, appVars>>

\* handleSubmit returns at once on an empty list: nothing is issued, nothing
\* is thrown, no toast is shown
SubmitOutcome(fileList) == IF Len(fileList) = 0 THEN "returned" ELSE "submitted"

\* the requests handleSubmit issues: one processMutation.mutate per file
RequestsFor(fileList) == Len(fileList)

\* handleSubmit, as the function runs when it is called: the disabled
\* attribute of the Process button is no part of it
HandleSubmit ==
    /\ mounted
    /\ inFlight + RequestsFor(files) <= MaxPosts
    /\ submitOutcome' = SubmitOutcome(files)
    /\ inFlight' = inFlight + RequestsFor(files)
    /\ UNCHANGED <<files, nextId, ws, tasks, lastMsg, inOrder, repeated,
                   lastToast>>
    /\ UNCHANGED <<mounted, transportVars, mixerVars, ev, appVars>>

\* toast() and setTasks() are setters of useState cells of the component
\* (useToast keeps its list in a useState of the calling component): on an
\* unmounted instance they change nothing
SetState(isMounted, old, new) == IF isMounted THEN new ELSE old

\* mutationFn, response ok: connectWebSocket(response.id), then onSuccess;
\* the request is not aborted by an unmount, so neither is the connect
PostSucceeds ==
    /\ inFlight > 0
    /\ nextId \in DOMAIN ws
    /\ inFlight' = inFlight - 1
    /\ ws' = [ws EXCEPT ![nextId] = "connecting"]
    /\ nextId' = nextId + 1
    /\ lastToast' = SetState(mounted, lastToast,
                            Toast("Processing Started", NoJob, NoError))
    /\ UNCHANGED <<files, tasks, lastMsg, inOrder, repeated,
                   submitOutcome>>
    /\ UNCHANGED <<mounted, transportVars, mixerVars, ev, appVars>>

\* the non-2xx answers POST /entries/ may get: the reason phrase of the
\* status line, and the field errors the body carries, if any
NoFields == "none"
ErrorResponses ==
    { [statusText |-> "Bad Request", fields |-> f] :
        f \in {NoFields, "audio_file: unsupported format"} }

\* fetchAPI on a response that is not ok: throw new Error(response.statusText);
\* the body is not read
ThrownError(response) == response.statusText

\* the description of the Upload Failed toast: the catch block tries
\* JSON.parse(error.message), which throws on a reason phrase, and falls back
\* to error.message
UploadFailedDescription(message) == message

\* mutationFn, fetchAPI throws: the Upload Failed toast, no socket
PostFails(response) ==
    /\ inFlight > 0
    /\ inFlight' = inFlight - 1
    /\ lastToast' = SetState(mounted, lastToast,
           Toast("Upload Failed", NoJob,
                 UploadFailedDescription(ThrownError(response))))
    /\ UNCHANGED <<files, nextId, ws, tasks, lastMsg, inOrder,
                   repeated, submitOutcome>>
    /\ UNCHANGED <<mounted, transportVars, mixerVars, ev, appVars>>

\* the connection is established; the component registers no onopen handler
WsOpen(j) ==
    /\ ws[j] = "connecting"
    /\ ws' = [ws EXCEPT ![j] = "open"]
    /\ UNCHANGED <<files, inFlight, nextId, tasks, lastMsg,
                   inOrder, repeated, lastToast, submitOutcome>>
    /\ UNCHANGED <<mounted, transportVars, mixerVars, ev, appVars>>

\* mutation: the status is not taken from the message
StoredEntryFixedStatus(data) ==
    [progress |-> data.progress, status |-> "processing"]

\* mutation: the work left is stored in place of the work done
StoredEntryRemaining(data) ==
    [progress |-> IF data.progress = UndefinedProgress THEN UndefinedProgress
                  ELSE 100 - data.progress,
     status |-> data.status]

\* the entry ws.onmessage stores: {progress: data.progress, status: data.status}
StoredEntry(data) == [progress |-> data.progress, status |-> data.status]

\* the readyState ws.onmessage leaves the socket in: it never calls ws.close()
AfterMessage(data, state) == state

\* mutation: the failure toast does not carry the server's error text
MessageToastOpaque(j, data, shown) ==
    IF data.status = "completed"
        THEN Toast("Processing Complete", j, NoError)
    ELSE IF data.status = "failed"
        THEN Toast("Processing Failed", j, NoError)
    ELSE shown

\* the toast ws.onmessage shows for the message, if any
MessageToast(j, data, shown) ==
    IF data.status = "completed"
        THEN Toast("Processing Complete", j, NoError)
    ELSE IF data.status = "failed"
        THEN Toast("Processing Failed", j, data.error)
    ELSE shown

\* mutation: the update is not keyed by the task id of the socket
UpdatedTasksAll(map, j, data) == [k \in DOMAIN map |-> StoredEntry(data)]

\* prev => new Map(prev).set(taskId, {...}): the entry of the socket's own
\* task id is replaced, every other entry is carried over
UpdatedTasks(map, j, data) == [map EXCEPT ![j] = StoredEntry(data)]

\* ws.onmessage
WsMessage(j, data) ==
    /\ ws[j] = "open"
    /\ tasks' = SetState(mounted, tasks, UpdatedTasks(tasks, j, data))
    /\ lastToast' = SetState(mounted, lastToast,
                            MessageToast(j, data, lastToast))
    /\ ws' = [ws EXCEPT ![j] = AfterMessage(data, ws[j])]
    /\ lastMsg' = [lastMsg EXCEPT ![j] = data]
    /\ inOrder' = [inOrder EXCEPT ![j] =
                      /\ inOrder[j]
                      /\ data.progress # UndefinedProgress
                      /\ lastMsg[j].progress <= data.progress]
    /\ repeated' = [repeated EXCEPT ![j] = lastMsg[j] # NoMessage]
    /\ UNCHANGED <<files, inFlight, nextId, submitOutcome>>
    /\ UNCHANGED <<mounted, transportVars, mixerVars, ev, appVars>>

\* the server or the network ends the connection; the component registers no
\* onclose or onerror handler
WsClosed(j) ==
    /\ ws[j] \in {"connecting", "open"}
    /\ ws' = [ws EXCEPT ![j] = "closed"]
    /\ UNCHANGED <<files, inFlight, nextId, tasks, lastMsg,
                   inOrder, repeated, lastToast, submitOutcome>>
    /\ UNCHANGED <<mounted, transportVars, mixerVars, ev, appVars>>

\* the sockets an unmount leaves behind: the component has no effect cleanup
\* and keeps no reference to the sockets connectWebSocket returns, so each
\* stays as it is, handler attached
SocketsAfterUnmount(sockets) == sockets

\* the AudioProcessor view is unmounted (route change, logout): its useState
\* cells are discarded, written here as their initial values; requests in
\* flight and sockets are not state of React and go on
Unmount ==
    /\ mounted
    /\ mounted' = FALSE
    /\ ws' = SocketsAfterUnmount(ws)
    /\ files' = <<>>
    /\ tasks' = [j \in JobIds |-> NoTask]
    /\ lastToast' = NoToast
    /\ submitOutcome' = "none"
    /\ UNCHANGED <<inFlight, nextId, lastMsg, inOrder, repeated>>
    /\ UNCHANGED <<transportVars, mixerVars, ev, appVars>>

NextProcessor ==
    \/ \E f \in FileNames : OnDrop(f)
    \/ \E i \in 1..MaxFiles : RemoveFile(i)
    \/ HandleSubmit
    \/ PostSucceeds
    \/ \E response \in ErrorResponses : PostFails(response)
    \/ \E j \in JobIds : WsOpen(j)
    \/ \E j \in JobIds, data \in Messages : WsMessage(j, data)
    \/ \E j \in JobIds : WsClosed(j)
    \/ Unmount

\* several jobs side by side: the same component with more job ids and the
\* three messages of a short run
MaxChannels == 2     \* job ids the server hands out here: 1..MaxChannels
ChannelJobs == 1..MaxChannels
ChannelMessages ==
    { [progress |-> 0, status |-> "processing", error |-> NoError],
      [progress |-> 100, status |-> "completed", error |-> NoError],
      [progress |-> UndefinedProgress, status |-> "failed",
       error |-> "out of memory"] }

InitChannels ==
    /\ files = <<>>
    /\ inFlight = 0
    /\ nextId = 1
    /\ ws = [j \in ChannelJobs |-> "none"]
    /\ tasks = [j \in ChannelJobs |-> NoTask]
    /\ lastMsg = [j \in ChannelJobs |-> NoMessage]
    /\ inOrder = [j \in ChannelJobs |-> TRUE]
    /\ repeated = [j \in ChannelJobs |-> FALSE]
    /\ lastToast = NoToast
    /\ submitOutcome = "none"
    /\ mounted = TRUE

NextChannels ==
    \/ \E f \in FileNames : OnDrop(f)
    \/ HandleSubmit
    \/ PostSucceeds
    \/ \E response \in ErrorResponses : PostFails(response)
    \/ \E j \in ChannelJobs : WsOpen(j)
    \/ \E j \in ChannelJobs, data \in ChannelMessages : WsMessage(j, data)
    \/ \E j \in ChannelJobs : WsClosed(j)

\* --------------------------------------------------------------- AudioPlayer
NumTracks == 3       \* length of the tracks prop
SeekSteps == 2       \* waveform positions explored: 0, 1/S, .., 1
VolumeLevels == 2    \* slider values explored: 0, 1/V, .., 1
MaxPending == 2      \* play/pause events queued at once

\* the names PlaybackView gives the tracks, in its order
TrackNames == <<"Original", "Vocals", "Drums", "Bass", "Other">>
tracks == SubSeq(TrackNames, 1, trackCount)
Names == {tracks[i] : i \in 1..Len(tracks)}
NoTrack == "null"

\* audio.duration while the element has no metadata (JS NaN)
NaN == -1

\* the length of the media behind tracks[index].url, in ticks; a position
\* k/SeekSteps of it is a whole number of ticks
TrackDuration(index) == SeekSteps * (index + 1)

Min(a, b) == IF a <= b THEN a ELSE b
Max(a, b) == IF a >= b THEN a ELSE b

Event(op, arg, pre) == [op |-> op, arg |-> arg, pre |-> pre]

\* what handleTrackEnd closes over when the media-event effect registers it;
\* the effect runs on mount and when currentTrackIndex changes
EndedClosure(loopFlag, index) ==
    [isLooping |-> loopFlag, index |-> index, length |-> Len(tracks)]

\* what the 'interaction' listener closes over when the waveform effect
\* registers it; the effect runs on mount and when audioUrl changes
InteractionClosure(renderDuration) == renderDuration

InitPlayerWith(count) ==
    /\ trackCount = count
    /\ volume = VolumeLevels
    /\ isMuted = FALSE
    /\ currentTrackIndex = 0
    /\ isPlaying = FALSE
    /\ currentTime = 0
    /\ duration = 0
    /\ isLooping = FALSE
    /\ audio = [currentTime |-> 0, duration |-> NaN, paused |-> TRUE,
                loop |-> FALSE, volume |-> VolumeLevels]
    /\ mediaEvents = <<>>
    /\ endedListener = EndedClosure(FALSE, 0)
    /\ waveDuration = InteractionClosure(0)
    /\ soloedTrack = NoTrack
    /\ mutedTracks = {}
    /\ trackVolumes = [n \in Names |-> VolumeLevels]
    /\ ev = Event("mount", NoTrack, NoTrack)

\* the player of a list of NumTracks tracks
InitPlayer == InitPlayerWith(NumTracks)

\* src={tracks[index]?.url} for a list of n tracks; the name of the track
\* stands for its url
TrackUrl(index, n) ==
    IF index \in 0..(n - 1) THEN TrackNames[index + 1] ELSE NoTrack

\* the element after its src attribute changed: the load algorithm pauses it,
\* resets the playback position and forgets the metadata
Loaded(el) ==
    [el EXCEPT !.currentTime = 0, !.duration = NaN, !.paused = TRUE]

\* the element after audio.currentTime = t: the position is kept inside the
\* media once its length is known
Seeked(el, t) ==
    [el EXCEPT !.currentTime =
        IF el.duration = NaN THEN Max(0, t) ELSE Max(0, Min(t, el.duration))]

\* the element after audio.pause()
Paused(el) == [el EXCEPT !.paused = TRUE]

\* the element after audio.play(): playback that had ended starts over
Played(el) ==
    [el EXCEPT !.paused = FALSE,
               !.currentTime =
                   IF el.paused /\ el.duration # NaN /\ el.currentTime = el.duration
                       THEN 0 ELSE el.currentTime]

\* the re-render after setCurrentTrackIndex(newIndex): a new src on the
\* element, both effects run again with the state of this render
Rerender(newIndex, el) ==
    IF newIndex = currentTrackIndex
    THEN /\ audio' = el
         /\ UNCHANGED <<currentTrackIndex, endedListener, waveDuration>>
    ELSE /\ currentTrackIndex' = newIndex
         /\ audio' = IF TrackUrl(newIndex, trackCount) =
                         TrackUrl(currentTrackIndex, trackCount)
                      THEN el ELSE Loaded(el)
         /\ endedListener' = EndedClosure(isLooping, newIndex)
         /\ waveDuration' = InteractionClosure(duration)

\* togglePlay
TogglePlay ==
    /\ Len(mediaEvents) < MaxPending
    /\ IF isPlaying
       THEN /\ audio' = Paused(audio)
            /\ mediaEvents' = IF audio.paused THEN mediaEvents
                              ELSE Append(mediaEvents, "pause")
       ELSE /\ audio' = Played(audio)
            /\ mediaEvents' = IF audio.paused THEN Append(mediaEvents, "play")
                              ELSE mediaEvents
    /\ isPlaying' = ~isPlaying
    /\ ev' = Event("togglePlay", NoTrack, NoTrack)
    /\ UNCHANGED <<currentTrackIndex, currentTime, duration, isLooping,
                   endedListener, waveDuration>>
    /\ UNCHANGED <<procVars, mixerVars, appVars, controlVars>>

\* onPlay / onPause of the <audio> element
MediaEvent ==
    /\ mediaEvents # <<>>
    /\ isPlaying' = (Head(mediaEvents) = "play")
    /\ mediaEvents' = Tail(mediaEvents)
    /\ ev' = Event(Head(mediaEvents), NoTrack, NoTrack)
    /\ UNCHANGED <<currentTrackIndex, currentTime, duration, isLooping, audio,
                   endedListener, waveDuration>>
    /\ UNCHANGED <<procVars, mixerVars, appVars, controlVars>>

\* updateTime, the 'timeupdate' listener
TimeUpdate ==
    /\ currentTime # audio.currentTime
    /\ currentTime' = audio.currentTime
    /\ ev' = Event("timeupdate", NoTrack, NoTrack)
    /\ UNCHANGED <<currentTrackIndex, isPlaying, duration, isLooping, audio,
                   mediaEvents, endedListener, waveDuration>>
    /\ UNCHANGED <<procVars, mixerVars, appVars, controlVars>>

\* updateDuration, the 'loadedmetadata' listener
LoadedMetadata ==
    /\ TrackUrl(currentTrackIndex, trackCount) # NoTrack
    /\ audio.duration = NaN
    /\ audio' = [audio EXCEPT
                    !.duration = TrackDuration(currentTrackIndex),
                    !.currentTime = Min(audio.currentTime,
                                        TrackDuration(currentTrackIndex))]
    /\ duration' = TrackDuration(currentTrackIndex)
    /\ ev' = Event("loadedmetadata", NoTrack, NoTrack)
    /\ UNCHANGED <<currentTrackIndex, isPlaying, currentTime, isLooping,
                   mediaEvents, endedListener, waveDuration>>
    /\ UNCHANGED <<procVars, mixerVars, appVars, controlVars>>

\* mutation: the element gets the flag as it was before the toggle
LoopAttributeStale(loopFlag) == loopFlag

\* the loop attribute toggleLoop writes to the element: audio.loop = !isLooping
LoopAttribute(loopFlag) == ~loopFlag

\* toggleLoop
ToggleLoop ==
    /\ isLooping' = ~isLooping
    /\ audio' = [audio EXCEPT !.loop = LoopAttribute(isLooping)]
    /\ ev' = Event("toggleLoop", NoTrack, NoTrack)
    /\ UNCHANGED <<currentTrackIndex, isPlaying, currentTime, duration,
                   mediaEvents, endedListener, waveDuration>>
    /\ UNCHANGED <<procVars, mixerVars, appVars, controlVars>>

\* handleTrackEnd as the registered listener runs it, on the element el the
\* end of playback left behind
HandleTrackEnd(listener, el) ==
    IF listener.isLooping
    THEN /\ Rerender(currentTrackIndex, Played(Seeked(el, 0)))
         /\ mediaEvents' = <<"play">>
         /\ isPlaying' = FALSE
    ELSE IF listener.index < listener.length - 1
    THEN /\ Rerender(listener.index + 1, el)
         /\ mediaEvents' = <<>>
         /\ isPlaying' = FALSE
    ELSE /\ Rerender(currentTrackIndex, el)
         /\ mediaEvents' = <<>>
         /\ isPlaying' = FALSE

\* playback reaches the end of the media.  With the loop attribute set the
\* element seeks back to the start and plays on, and fires no 'ended'.
\* Otherwise one task fires timeupdate, pauses the element, fires pause and
\* then ended, which runs the registered handleTrackEnd.
ReachEnd ==
    /\ ~audio.paused
    /\ audio.duration # NaN
    /\ mediaEvents = <<>>
    /\ ev' = Event("ended", NoTrack, NoTrack)
    /\ IF audio.loop
       THEN /\ audio' = Seeked(audio, 0)
            /\ UNCHANGED <<currentTrackIndex, isPlaying, currentTime,
                           mediaEvents, endedListener, waveDuration>>
       ELSE /\ currentTime' = audio.duration
            /\ HandleTrackEnd(endedListener,
                   Paused([audio EXCEPT !.currentTime = audio.duration]))
    /\ UNCHANGED <<duration, isLooping>>
    /\ UNCHANGED <<procVars, mixerVars, appVars, controlVars>>

\* SkipBack button: setCurrentTrackIndex(Math.max(0, currentTrackIndex - 1))
SkipBack ==
    /\ Rerender(Max(0, currentTrackIndex - 1), audio)
    /\ mediaEvents' = IF currentTrackIndex = 0 THEN mediaEvents ELSE <<>>
    /\ ev' = Event("skipBack", NoTrack, NoTrack)
    /\ UNCHANGED <<isPlaying, currentTime, duration, isLooping>>
    /\ UNCHANGED <<procVars, mixerVars, appVars, controlVars>>

\* SkipForward button:
\* setCurrentTrackIndex(Math.min(tracks.length - 1, currentTrackIndex + 1))
SkipForward ==
    /\ Rerender(Min(Len(tracks) - 1, currentTrackIndex + 1), audio)
    /\ mediaEvents' = IF currentTrackIndex = Len(tracks) - 1
                      THEN mediaEvents ELSE <<>>
    /\ ev' = Event("skipForward", NoTrack, NoTrack)
    /\ UNCHANGED <<isPlaying, currentTime, duration, isLooping>>
    /\ UNCHANGED <<procVars, mixerVars, appVars, controlVars>>

\* the time the 'interaction' listener hands to onTimeChange for the position
\* k/SeekSteps: position * duration, with the duration it closed over
InteractionTime(k, closedDuration) == (k * closedDuration) \div SeekSteps

\* the waveform's 'interaction' listener, then handleTimeChange
Interaction(k) ==
    /\ audio' = Seeked(audio, InteractionTime(k, waveDuration))
    /\ currentTime' = InteractionTime(k, waveDuration)
    /\ ev' = Event("interaction", NoTrack, NoTrack)
    /\ UNCHANGED <<currentTrackIndex, isPlaying, duration, isLooping,
                   mediaEvents, endedListener, waveDuration>>
    /\ UNCHANGED <<procVars, mixerVars, appVars, controlVars>>

\* the parent renders the player with a list of n tracks: PlaybackView builds
\* the list from the entry of each query result.  The element loads when its
\* src becomes another url; the waveform effect (deps [audioUrl]) runs again
\* when the url changes; the media-event effect (deps [currentTrackIndex])
\* does not, so the registered handleTrackEnd keeps the old length.
TracksChange(n) ==
    /\ n # trackCount
    /\ trackCount' = n
    /\ audio' = IF TrackUrl(currentTrackIndex, n) \notin
                     {NoTrack, TrackUrl(currentTrackIndex, trackCount)}
                 THEN Loaded(audio) ELSE audio
    /\ waveDuration' = IF TrackUrl(currentTrackIndex, n) =
                            TrackUrl(currentTrackIndex, trackCount)
                        THEN waveDuration ELSE InteractionClosure(duration)
    /\ mediaEvents' = IF audio' = audio THEN mediaEvents ELSE <<>>
    /\ ev' = Event("tracks", NoTrack, NoTrack)
    /\ UNCHANGED <<currentTrackIndex, isPlaying, currentTime, duration,
                   isLooping, endedListener, volume, isMuted>>
    /\ UNCHANGED <<procVars, mixerVars, appVars>>

\* the tracks prop changes while the player is mounted
NextTrackList ==
    \/ TogglePlay
    \/ MediaEvent
    \/ LoadedMetadata
    \/ ReachEnd
    \/ SkipBack
    \/ SkipForward
    \/ \E n \in 0..NumTracks : TracksChange(n)

\* mutation: toggleMute leaves the element's volume alone
MutedVolumeKept(newMuted, stored, el) == el.volume

\* toggleMute: audio.volume = newMuted ? 0 : volume
MutedVolume(newMuted, stored, el) == IF newMuted THEN 0 ELSE stored

\* handleVolumeChange, from the slider (min 0, max 1, in steps)
HandleVolumeChange(newVolume) ==
    /\ audio' = [audio EXCEPT !.volume = newVolume]
    /\ volume' = newVolume
    /\ isMuted' = (newVolume = 0)
    /\ ev' = Event("handleVolumeChange", NoTrack, NoTrack)
    /\ UNCHANGED <<currentTrackIndex, isPlaying, currentTime, duration,
                   isLooping, mediaEvents, endedListener, waveDuration,
                   trackCount>>
    /\ UNCHANGED <<procVars, mixerVars, appVars>>

\* toggleMute; the event records the element's volume before the toggle
ToggleMute ==
    /\ audio' = [audio EXCEPT !.volume = MutedVolume(~isMuted, volume, audio)]
    /\ isMuted' = ~isMuted
    /\ ev' = Event("toggleMute", NoTrack, audio.volume)
    /\ UNCHANGED <<currentTrackIndex, isPlaying, currentTime, duration,
                   isLooping, mediaEvents, endedListener, waveDuration,
                   trackCount, volume>>
    /\ UNCHANGED <<procVars, mixerVars, appVars>>

\* the global volume control, with the controls that change track and
\* playback beside it
NextVolume ==
    \/ \E v \in 0..VolumeLevels : HandleVolumeChange(v)
    \/ ToggleMute
    \/ TogglePlay
    \/ MediaEvent
    \/ LoadedMetadata
    \/ SkipBack
    \/ SkipForward

NextTransport ==
    \/ TogglePlay
    \/ MediaEvent
    \/ TimeUpdate
    \/ LoadedMetadata
    \/ ToggleLoop
    \/ ReachEnd
    \/ SkipBack
    \/ SkipForward
    \/ \E k \in 0..SeekSteps : Interaction(k)

\* --------------------------------------------------------------------- mixer
\* isSolo={soloedTrack === track.name}
IsSolo(name) == soloedTrack = name

\* the volume at which a track reaches the output, in slider steps.  The
\* component renders one <audio> element whose src is the url of the current
\* track and whose volume the global control sets; soloedTrack, mutedTracks
\* and trackVolumes are passed to TrackControls for display and to nothing
\* else, so a track that is not the current one is not played at all.
OutputVolume(name) ==
    IF tracks[currentTrackIndex + 1] = name THEN audio.volume ELSE 0

\* mutation: a second toggle on the soloed track does not clear it
ToggledSoloNeverClears(soloed, trackName) == trackName

\* the soloedTrack toggleSolo(trackName) sets
ToggledSolo(soloed, trackName) ==
    IF soloed = trackName THEN NoTrack ELSE trackName

\* toggleSolo
ToggleSolo(trackName) ==
    /\ soloedTrack' = ToggledSolo(soloedTrack, trackName)
    /\ ev' = Event("toggleSolo", trackName, soloedTrack)
    /\ UNCHANGED <<mutedTracks, trackVolumes>>
    /\ UNCHANGED <<procVars, transportVars, appVars>>

\* toggleMuteTrack
ToggleMuteTrack(trackName) ==
    /\ mutedTracks' = IF trackName \in mutedTracks
                      THEN mutedTracks \ {trackName}
                      ELSE mutedTracks \cup {trackName}
    /\ ev' = Event("toggleMuteTrack", trackName, NoTrack)
    /\ UNCHANGED <<soloedTrack, trackVolumes>>
    /\ UNCHANGED <<procVars, transportVars, appVars>>

\* handleTrackVolumeChange
HandleTrackVolumeChange(trackName, value) ==
    /\ trackVolumes' = [trackVolumes EXCEPT ![trackName] = value]
    /\ ev' = Event("handleTrackVolumeChange", trackName, NoTrack)
    /\ UNCHANGED <<soloedTrack, mutedTracks>>
    /\ UNCHANGED <<procVars, transportVars, appVars>>

NextMixer ==
    \/ \E n \in Names : ToggleSolo(n)
    \/ \E n \in Names : ToggleMuteTrack(n)
    \/ \E n \in Names, v \in 0..VolumeLevels : HandleTrackVolumeChange(n, v)

\* -------------------------------------------------------- WaveformVisualizer
\* the urls a track may carry; the empty string is a track without url
Urls == {"/media/original.wav", "/media/vocals.wav"}
NoUrl == ""

\* wavesurferRef.current === null
NoInstance == [url |-> NoUrl, live |-> FALSE, ready |-> FALSE]

NoSeek == [num |-> 0, den |-> 0, url |-> NoUrl, ready |-> FALSE, live |-> FALSE]

InitWaveform ==
    /\ wvMounted = FALSE
    /\ audioUrl = NoUrl
    /\ propCurrentTime = 0
    /\ propDuration = 0
    /\ wavesurferRef = NoInstance
    /\ liveInstances = [u \in Urls |-> 0]
    /\ isReady = FALSE
    /\ lastSeek = NoSeek

\* the create effect: nothing without a url; otherwise WaveSurfer.create,
\* stored in the ref, and load(audioUrl)
Created(url, ref) ==
    IF url = NoUrl THEN ref ELSE [url |-> url, live |-> TRUE, ready |-> FALSE]

LiveAfterCreate(url, live) ==
    IF url = NoUrl THEN live ELSE [live EXCEPT ![url] = @ + 1]

\* the cleanup the create effect returned for url: none when the effect
\* returned early; otherwise wavesurferRef.current.destroy() if the ref is set
Destroyed(url, ref) ==
    IF url = NoUrl \/ ref = NoInstance THEN ref ELSE [ref EXCEPT !.live = FALSE]

\* mutation: the cleanup forgets the instance without destroying it
LiveAfterDestroyLeaks(url, ref, live) == live

LiveAfterDestroy(url, ref, live) ==
    IF url # NoUrl /\ ref.live THEN [live EXCEPT ![ref.url] = @ - 1] ELSE live

\* the seek effect, run with the values of one render: seekTo(currentTime /
\* duration) if isReady and the ref is set and duration > 0
SeekEffect(ready, ref, time, length, seek) ==
    IF ready /\ ref # NoInstance /\ length > 0
    THEN [num |-> time, den |-> length, url |-> ref.url,
          ready |-> ref.ready, live |-> ref.live]
    ELSE seek

\* the component mounts: fresh state and ref, both effects run
WvMount(url, time, length) ==
    /\ ~wvMounted
    /\ wvMounted' = TRUE
    /\ audioUrl' = url
    /\ propCurrentTime' = time
    /\ propDuration' = length
    /\ isReady' = FALSE
    /\ wavesurferRef' = Created(url, NoInstance)
    /\ liveInstances' = LiveAfterCreate(url, liveInstances)
    /\ lastSeek' = SeekEffect(FALSE, wavesurferRef', time, length, NoSeek)
    /\ UNCHANGED <<procVars, transportVars, mixerVars, ev, authVars, viewVars, pollVars>>

\* a render with another audioUrl: the cleanup of the previous create effect,
\* then the create effect; isReady is state and is not reset
WvUrlChange(url) ==
    /\ wvMounted
    /\ url # audioUrl
    /\ audioUrl' = url
    /\ wavesurferRef' = Created(url, Destroyed(audioUrl, wavesurferRef))
    /\ liveInstances' =
           LiveAfterCreate(url,
               LiveAfterDestroy(audioUrl, wavesurferRef, liveInstances))
    /\ UNCHANGED <<wvMounted, propCurrentTime, propDuration, isReady, lastSeek>>
    /\ UNCHANGED <<procVars, transportVars, mixerVars, ev, authVars, viewVars, pollVars>>

\* the live instance fires 'ready': setIsReady(true), and the seek effect
\* runs if that changed isReady
WvReady ==
    /\ wvMounted
    /\ wavesurferRef.live /\ ~wavesurferRef.ready
    /\ wavesurferRef' = [wavesurferRef EXCEPT !.ready = TRUE]
    /\ isReady' = TRUE
    /\ lastSeek' = IF isReady THEN lastSeek
                   ELSE SeekEffect(TRUE, wavesurferRef', propCurrentTime,
                                   propDuration, lastSeek)
    /\ UNCHANGED <<wvMounted, audioUrl, propCurrentTime, propDuration,
                   liveInstances>>
    /\ UNCHANGED <<procVars, transportVars, mixerVars, ev, authVars, viewVars, pollVars>>

\* a render with another currentTime or duration: the seek effect runs
WvProps(time, length) ==
    /\ wvMounted
    /\ <<time, length>> # <<propCurrentTime, propDuration>>
    /\ propCurrentTime' = time
    /\ propDuration' = length
    /\ lastSeek' = SeekEffect(isReady, wavesurferRef, time, length, lastSeek)
    /\ UNCHANGED <<wvMounted, audioUrl, wavesurferRef, liveInstances, isReady>>
    /\ UNCHANGED <<procVars, transportVars, mixerVars, ev, authVars, viewVars, pollVars>>

\* the component unmounts: the cleanup of the create effect runs; state, props
\* and ref of the instance are gone, written here as their initial values
WvUnmount ==
    /\ wvMounted
    /\ wvMounted' = FALSE
    /\ liveInstances' = LiveAfterDestroy(audioUrl, wavesurferRef, liveInstances)
    /\ audioUrl' = NoUrl
    /\ propCurrentTime' = 0
    /\ propDuration' = 0
    /\ wavesurferRef' = NoInstance
    /\ isReady' = FALSE
    /\ lastSeek' = NoSeek
    /\ UNCHANGED <<procVars, transportVars, mixerVars, ev, authVars, viewVars, pollVars>>

NextWaveform ==
    \/ \E url \in Urls \cup {NoUrl}, time \in 0..SeekSteps,
          length \in 0..SeekSteps : WvMount(url, time, length)
    \/ \E url \in Urls \cup {NoUrl} : WvUrlChange(url)
    \/ WvReady
    \/ \E time \in 0..SeekSteps, length \in 0..SeekSteps : WvProps(time, length)
    \/ WvUnmount

\* ---------------------------------------------------------------------- auth
\* the tokens the token service may hand out; Null is localStorage.getItem
\* of a missing key and the store's null
Tokens == {"tokenA", "tokenB"}
Null == "null"

\* the routes of routeTree: /login, and the children of the protected route
LoginPath == "/login"
ProtectedPaths == {"/", "/settings", "/playback/$entryId"}

\* the REST calls of the frontend: ProcessingHistory / FileManager list,
\* processMutation create, renameMutation, deleteMutation, handleDownload,
\* Settings save
Requests == {"list", "create", "rename", "delete", "download", "settings"}
NoHeader == "none"
NoRequest == [op |-> "none", authorization |-> NoHeader]

AuthEvent(op, path) == [op |-> op, path |-> path]

\* login and refreshAccessToken also return a boolean
AuthReturn(op, path, value) == [op |-> op, path |-> path, returned |-> value]

\* useAuth: isAuthenticated: !!accessToken
IsAuthenticated(token) == token # Null

\* mutation: the protected route renders its outlet whatever the token
ShownAlways(path, token) == path

\* the path the router ends up showing for path: ProtectedRoute returns
\* <Navigate to="/login" /> for its children unless isAuthenticated
Shown(path, token) ==
    IF path \in ProtectedPaths /\ ~IsAuthenticated(token) THEN LoginPath
    ELSE path

\* fetchAPI: the Authorization header it sets: Bearer <token> if
\* localStorage holds an access_token, none otherwise
FetchAPIHeader(stored) ==
    IF stored.access_token # Null THEN stored.access_token ELSE NoHeader

\* the Authorization header of each call: all go through fetchAPI except
\* handleDownload, which calls fetch(`/api/entries/${id}/download/`) bare
RequestHeader(op, stored) ==
    IF op = "download" THEN NoHeader ELSE FetchAPIHeader(stored)

\* the first visit, on /: localStorage is empty, the store reads both tokens
\* from it, the router renders the path.  A start with persisted tokens is a
\* Reload after a login.
InitAuth ==
    /\ storage = [access_token |-> Null, refresh_token |-> Null]
    /\ accessToken = storage.access_token
    /\ refreshToken = storage.refresh_token
    /\ location = Shown("/", accessToken)
    /\ authEv = AuthEvent("start", "/")
    /\ lastRequest = NoRequest

\* the page is loaded again
Reload(path) ==
    /\ accessToken' = storage.access_token
    /\ refreshToken' = storage.refresh_token
    /\ location' = Shown(path, accessToken')
    /\ authEv' = AuthEvent("start", path)
    /\ lastRequest' = NoRequest
    /\ UNCHANGED storage
    /\ UNCHANGED <<procVars, transportVars, mixerVars, ev, waveVars, viewVars, pollVars>>

\* setTokens
SetTokens(access, refresh) ==
    /\ storage' = [access_token |-> access, refresh_token |-> refresh]
    /\ accessToken' = access
    /\ refreshToken' = refresh

\* useAuth.login, the token service answers ok: setTokens, navigate to /
LoginSucceeds(access, refresh) ==
    /\ location = LoginPath
    /\ SetTokens(access, refresh)
    /\ location' = Shown("/", accessToken')
    /\ authEv' = AuthReturn("login", "/", TRUE)
    /\ UNCHANGED lastRequest
    /\ UNCHANGED <<procVars, transportVars, mixerVars, ev, waveVars, viewVars, pollVars>>

\* useAuth.refreshAccessToken, the token service answers ok
RefreshSucceeds(access, refresh) ==
    /\ refreshToken # Null
    /\ SetTokens(access, refresh)
    /\ location' = Shown(location, accessToken')
    /\ authEv' = AuthReturn("refresh", location, TRUE)
    /\ UNCHANGED lastRequest
    /\ UNCHANGED <<procVars, transportVars, mixerVars, ev, waveVars, viewVars, pollVars>>

\* mutation: a failed call clears the tokens
StorageAfterFailureCleared(stored) ==
    [access_token |-> Null, refresh_token |-> Null]

\* the catch branches of login and refreshAccessToken: console.error and
\* return false; localStorage is not touched
StorageAfterFailure(stored) == stored

\* useAuth.login, the fetch rejects or the answer is not ok
LoginFails ==
    /\ location = LoginPath
    /\ storage' = StorageAfterFailure(storage)
    /\ authEv' = AuthReturn("login", location, FALSE)
    /\ UNCHANGED <<accessToken, refreshToken, location, lastRequest>>
    /\ UNCHANGED <<procVars, transportVars, mixerVars, ev, waveVars, viewVars, pollVars>>

\* useAuth.refreshAccessToken without a refresh token, or the fetch rejects,
\* or the answer is not ok
RefreshFails ==
    /\ storage' = StorageAfterFailure(storage)
    /\ authEv' = AuthReturn("refresh", location, FALSE)
    /\ UNCHANGED <<accessToken, refreshToken, location, lastRequest>>
    /\ UNCHANGED <<procVars, transportVars, mixerVars, ev, waveVars, viewVars, pollVars>>

\* useAuth.logout (handleLogout): the store's logout, then navigate to /login
Logout ==
    /\ storage' = [access_token |-> Null, refresh_token |-> Null]
    /\ accessToken' = Null
    /\ refreshToken' = Null
    /\ location' = Shown(LoginPath, accessToken')
    /\ authEv' = AuthEvent("logout", LoginPath)
    /\ UNCHANGED lastRequest
    /\ UNCHANGED <<procVars, transportVars, mixerVars, ev, waveVars, viewVars, pollVars>>

\* the user follows a link or types a path
Navigate(path) ==
    /\ location' = Shown(path, accessToken)
    /\ authEv' = AuthEvent("navigate", path)
    /\ UNCHANGED <<storage, accessToken, refreshToken, lastRequest>>
    /\ UNCHANGED <<procVars, transportVars, mixerVars, ev, waveVars, viewVars, pollVars>>

\* a component under the protected route issues a REST call
IssueRequest(op) ==
    /\ location \in ProtectedPaths
    /\ lastRequest' = [op |-> op, authorization |-> RequestHeader(op, storage)]
    /\ authEv' = AuthEvent("request", location)
    /\ UNCHANGED <<storage, accessToken, refreshToken, location>>
    /\ UNCHANGED <<procVars, transportVars, mixerVars, ev, waveVars, viewVars, pollVars>>

NextAuth ==
    \/ \E path \in ProtectedPaths \cup {LoginPath} : Reload(path)
    \/ \E access \in Tokens, refresh \in Tokens : LoginSucceeds(access, refresh)
    \/ \E access \in Tokens, refresh \in Tokens :
          RefreshSucceeds(access, refresh)
    \/ LoginFails
    \/ RefreshFails
    \/ Logout
    \/ \E path \in ProtectedPaths \cup {LoginPath} : Navigate(path)
    \/ \E op \in Requests : IssueRequest(op)

\* -------------------------------------------------------------- PlaybackView
\* the keys of entry.tracks, and the url the server gives each when present
StemKeys == {"original", "vocals", "drums", "bass", "other"}
MediaUrl(key) == "/media/" \o key \o ".wav"

\* what GET /entries/{id}/ may answer: any processing status, each of the
\* five urls present or missing
Entries ==
    { [processing_status |-> st,
       tracks |-> [k \in StemKeys |-> IF k \in present THEN MediaUrl(k)
                                      ELSE NoUrl]] :
        st \in Statuses, present \in SUBSET StemKeys }
NoEntry == [processing_status |-> "none", tracks |-> [k \in StemKeys |-> NoUrl]]

Track(name, url) == [name |-> name, url |-> url]

\* ...(entry.tracks.key ? [{name, url: entry.tracks.key}] : [])
Optional(name, url) == IF url # NoUrl THEN <<Track(name, url)>> ELSE <<>>

\* mutation: the stems are left out of the list
BuildTracksOriginalOnly(e) ==
    SelectSeq(<<Track("Original", e.tracks["original"])>>,
              LAMBDA t : t.url # NoUrl)

\* const tracks = [Original, ...Vocals?, ...Drums?, ...Bass?, ...Other?]
\*                   .filter(track => track.url)
BuildTracks(e) ==
    SelectSeq(<<Track("Original", e.tracks["original"])>>
                  \o Optional("Vocals", e.tracks["vocals"])
                  \o Optional("Drums", e.tracks["drums"])
                  \o Optional("Bass", e.tracks["bass"])
                  \o Optional("Other", e.tracks["other"]),
              LAMBDA t : t.url # NoUrl)

\* the urls one render dereferences: a WaveformVisualizer per track loads
\* track.url, the AudioPlayer puts tracks[0].url on its <audio> element; the
\* render does not look at entry.processing_status
Dereferenced(trackList) == {trackList[i].url : i \in 1..Len(trackList)}

InitPlayback ==
    /\ playbackView = "closed"
    /\ entry = NoEntry
    /\ playbackTracks = <<>>
    /\ dereferenced = {}

\* the route /playback/$entryId is entered: isLoading
OpenPlayback ==
    /\ playbackView = "closed"
    /\ playbackView' = "loading"
    /\ UNCHANGED <<entry, playbackTracks, dereferenced>>
    /\ UNCHANGED <<procVars, transportVars, mixerVars, ev, waveVars, authVars, pollVars>>

\* the query has no entry: "Entry not found"
QueryEmpty ==
    /\ playbackView = "loading"
    /\ playbackView' = "notFound"
    /\ UNCHANGED <<entry, playbackTracks, dereferenced>>
    /\ UNCHANGED <<procVars, transportVars, mixerVars, ev, waveVars, authVars, pollVars>>

\* the query delivers the entry, first or refetched: the view renders with it
QueryResolves(e) ==
    /\ playbackView \in {"loading", "shown"}
    /\ e # entry
    /\ playbackView' = "shown"
    /\ entry' = e
    /\ playbackTracks' = BuildTracks(e)
    /\ dereferenced' = Dereferenced(playbackTracks')
    /\ UNCHANGED <<procVars, transportVars, mixerVars, ev, waveVars, authVars, pollVars>>

\* the route is left
ClosePlayback ==
    /\ playbackView # "closed"
    /\ playbackView' = "closed"
    /\ entry' = NoEntry
    /\ playbackTracks' = <<>>
    /\ dereferenced' = {}
    /\ UNCHANGED <<procVars, transportVars, mixerVars, ev, waveVars, authVars, pollVars>>

NextPlayback ==
    \/ OpenPlayback
    \/ QueryEmpty
    \/ \E e \in Entries : QueryResolves(e)
    \/ ClosePlayback

\* ------------------------------------------------------------- polling pages
MaxTasks == 2        \* task ids /dsp/upload/ hands out: 1..MaxTasks
MaxPolls == 2        \* poll requests of one task awaiting an answer at once

PollTasks == 1..MaxTasks
NoPollTask == 0
Pages == {"FileManager", "DspUpload"}

\* the status texts the pages show
StatusText(text, task) == [text |-> text, task |-> task]
NoStatus == StatusText("", NoPollTask)

\* what a poll may come back with: the JSON status of the task, or a
\* rejection of fetch / of response.json()
PollOutcomes == {"processing", "completed", "failed", "error"}
IsTerminalOutcome(outcome) == outcome \in {"completed", "failed", "error"}

InitPolling(page) ==
    /\ pollPage = page
    /\ pollMounted = TRUE
    /\ taskId = NoPollTask
    /\ pollStatus = NoStatus
    /\ result = NoPollTask
    /\ intervals = {}
    /\ polls = [t \in PollTasks |-> 0]
    /\ serverStatus = [t \in PollTasks |-> "none"]
    /\ stopped = {}

\* the timers left running when a new task id arrives.  FileManager: the
\* cleanup of the polling effect clears the timer of the previous task id.
\* DSP page: pollResults starts a timer and nothing clears the others.
IntervalsAfterNewTask(page, running) ==
    IF page = "FileManager" THEN {} ELSE running

\* an upload succeeds with a new task id: FileManager gets it through
\* onUploadComplete = setTaskId and its effect shows "Processing file..." and
\* starts the timer; the DSP page shows the same text and calls pollResults
UploadComplete(t) ==
    /\ pollMounted
    /\ serverStatus[t] = "none"
    /\ \A u \in PollTasks : u < t => serverStatus[u] # "none"
    /\ serverStatus' = [serverStatus EXCEPT ![t] = "processing"]
    /\ taskId' = t
    /\ pollStatus' = StatusText("Processing file...", t)
    /\ intervals' = IntervalsAfterNewTask(pollPage, intervals) \cup {t}
    /\ UNCHANGED <<pollPage, pollMounted, result, polls, stopped>>
    /\ UNCHANGED <<procVars, transportVars, mixerVars, ev, waveVars, authVars,
                   viewVars>>

\* the backend finishes the task
ServerFinishes(t, outcome) ==
    /\ serverStatus[t] = "processing"
    /\ serverStatus' = [serverStatus EXCEPT ![t] = outcome]
    /\ UNCHANGED <<pollPage, pollMounted, taskId, pollStatus, result,
                   intervals, polls, stopped>>
    /\ UNCHANGED <<procVars, transportVars, mixerVars, ev, waveVars, authVars,
                   viewVars>>

\* the timer of task t fires: the callback issues fetch(/dsp/result/t/),
\* whether or not an earlier poll of t has been answered
PollTick(t) ==
    /\ t \in intervals
    /\ polls[t] < MaxPolls
    /\ polls' = [polls EXCEPT ![t] = @ + 1]
    /\ UNCHANGED <<pollPage, pollMounted, taskId, pollStatus, result,
                   intervals, serverStatus, stopped>>
    /\ UNCHANGED <<procVars, transportVars, mixerVars, ev, waveVars, authVars,
                   viewVars>>

\* the status text a poll of task t that came back with outcome shows
ShownStatus(t, outcome, shown) ==
    CASE outcome = "completed" -> StatusText("Processing completed!", t)
      [] outcome = "failed" -> StatusText("Processing failed: out of memory", t)
      [] outcome = "error" -> StatusText("Error checking processing status.", t)
      [] OTHER -> shown

\* mutation: a terminal outcome leaves the timer running
IntervalsAfterPollKeeps(t, outcome, running) == running

\* clearInterval(intervalId) in the completed, failed and catch branches; the
\* id is the one of the timer whose callback this is
IntervalsAfterPoll(t, outcome, running) ==
    IF IsTerminalOutcome(outcome) THEN running \ {t} ELSE running

\* a poll of task t comes back: with the status the server has for t, or
\* with a rejection.  setPollStatus / setResult of an unmounted FileManager
\* change nothing.
PollResponse(t, outcome) ==
    /\ polls[t] > 0
    /\ outcome \in {serverStatus[t], "error"}
    /\ polls' = [polls EXCEPT ![t] = @ - 1]
    /\ intervals' = IntervalsAfterPoll(t, outcome, intervals)
    /\ stopped' = IF IsTerminalOutcome(outcome) THEN stopped \cup {t}
                  ELSE stopped
    /\ pollStatus' = SetState(pollMounted, pollStatus,
                              ShownStatus(t, outcome, pollStatus))
    /\ result' = SetState(pollMounted, result,
                          IF outcome = "completed" THEN t ELSE result)
    /\ UNCHANGED <<pollPage, pollMounted, taskId, serverStatus>>
    /\ UNCHANGED <<procVars, transportVars, mixerVars, ev, waveVars, authVars,
                   viewVars>>

\* FileManager unmounts: the cleanup of the polling effect clears the timer;
\* the state of the component is gone, written as its initial values
PollUnmount ==
    /\ pollPage = "FileManager"
    /\ pollMounted
    /\ pollMounted' = FALSE
    /\ intervals' = {}
    /\ taskId' = NoPollTask
    /\ pollStatus' = NoStatus
    /\ result' = NoPollTask
    /\ UNCHANGED <<pollPage, polls, serverStatus, stopped>>
    /\ UNCHANGED <<procVars, transportVars, mixerVars, ev, waveVars, authVars,
                   viewVars>>

NextPolling ==
    \/ \E t \in PollTasks : UploadComplete(t)
    \/ \E t \in PollTasks, outcome \in {"completed", "failed"} :
          ServerFinishes(t, outcome)
    \/ \E t \in PollTasks : PollTick(t)
    \/ \E t \in PollTasks, outcome \in PollOutcomes : PollResponse(t, outcome)
    \/ PollUnmount

\* ------------------------------------------------------------ specifications
InitAll ==
    /\ InitProcessor
    /\ InitPlayer
    /\ InitWaveform
    /\ InitAuth
    /\ InitPlayback
    /\ InitPolling("FileManager")

SpecProcessor == InitAll /\ [][NextProcessor]_vars

SpecPlayer == InitAll /\ [][NextTransport]_vars

SpecMixer == InitAll /\ [][NextMixer]_vars

SpecWaveform == InitAll /\ [][NextWaveform]_vars

SpecAuth == InitAll /\ [][NextAuth]_vars

SpecPlayback == InitAll /\ [][NextPlayback]_vars

InitAllChannels ==
    /\ InitChannels
    /\ InitPlayer
    /\ InitWaveform
    /\ InitAuth
    /\ InitPlayback
    /\ InitPolling("FileManager")

\* either polling page
InitAllPolling ==
    /\ InitProcessor
    /\ InitPlayer
    /\ InitWaveform
    /\ InitAuth
    /\ InitPlayback
    /\ \E page \in Pages : InitPolling(page)

SpecPolling == InitAllPolling /\ [][NextPolling]_vars

\* the player of a list of any length, the empty one included
InitAllTrackList ==
    /\ InitProcessor
    /\ \E n \in 0..NumTracks : InitPlayerWith(n)
    /\ InitWaveform
    /\ InitAuth
    /\ InitPlayback
    /\ InitPolling("FileManager")

SpecTrackList == InitAllTrackList /\ [][NextTrackList]_vars

SpecVolume == InitAll /\ [][NextVolume]_vars

SpecChannels == InitAllChannels /\ [][NextChannels]_vars

\* -------------------------------------------------------------------- claims
Entry(m) == [progress |-> m.progress, status |-> m.status]

\* C1: while the view is mounted and the messages on a job's socket arrive
\* with non-decreasing progress, the tasks entry of that job holds exactly
\* the progress and the status of the message received last.
C1_RegistryHoldsLastMessage ==
    \A j \in JobIds :
        (mounted /\ lastMsg[j] # NoMessage /\ inOrder[j]) =>
            tasks[j] = Entry(lastMsg[j])

\* C1 witness: a second in-order message moved a job to 100 / completed.
C1_Witness ==
    \E j \in JobIds :
        /\ mounted
        /\ inOrder[j] /\ repeated[j]
        /\ lastMsg[j].progress = 100 /\ lastMsg[j].status = "completed"
        /\ tasks[j].progress = 100

\* C2 as claimed: handleSubmit on an empty file list issues no request,
\* opens no socket, and yields a ValidationError to the caller.
C2_EmptySubmitYieldsValidationError ==
    [][(HandleSubmit /\ Len(files) = 0) =>
          /\ inFlight' = inFlight
          /\ ws' = ws
          /\ submitOutcome' = "ValidationError"]_vars

\* C3: at most one track is soloed; toggleSolo on B while another track A is
\* soloed leaves exactly B soloed; toggleSolo on the soloed track leaves none.
C3_SoloMutualExclusion ==
    /\ Cardinality({n \in Names : IsSolo(n)}) <= 1
    /\ ev.op = "toggleSolo" =>
          /\ (ev.pre # NoTrack /\ ev.pre # ev.arg) =>
                (IsSolo(ev.arg) /\ ~IsSolo(ev.pre))
          /\ (ev.pre = ev.arg) => \A n \in Names : ~IsSolo(n)

\* C3 witness: toggleSolo(Vocals) ran while Original was soloed.
C3_Witness ==
    /\ ev.op = "toggleSolo" /\ ev.pre = "Original" /\ ev.arg = "Vocals"
    /\ IsSolo("Vocals")

\* C4 as claimed: a waveform interaction at position k/SeekSteps on a track
\* whose duration D is known sets the state's and the element's current time
\* to position * D, D being the duration at the moment of the interaction.
C4_SeekUsesCurrentDuration ==
    [][\A k \in 0..SeekSteps :
          (/\ Interaction(k)
           /\ audio.duration # NaN /\ audio.duration > 0
           /\ duration = audio.duration) =>
          /\ currentTime' = (k * audio.duration) \div SeekSteps
          /\ audio'.currentTime = (k * audio.duration) \div SeekSteps]_vars

\* C5: when playback reaches the end of the track while isLooping is set, the
\* element is back at time 0 and still playing, and the track index and the
\* isPlaying flag are as before.
C5_LoopRestartsTrack ==
    [][(ReachEnd /\ isLooping) =>
          /\ audio'.currentTime = 0
          /\ ~audio'.paused
          /\ currentTrackIndex' = currentTrackIndex
          /\ isPlaying' = isPlaying]_vars

\* C5 witness: the track ended and restarted with the loop toggled on after
\* the 'ended' listener of the current track was registered.
C5_Witness ==
    /\ ev.op = "ended"
    /\ isLooping /\ ~endedListener.isLooping
    /\ audio.currentTime = 0 /\ ~audio.paused

\* C6 as claimed: when playback reaches the end of a track that is not the
\* last while isLooping is off, the index advances by one and the playback
\* position is back at 0.
C6_EndAdvancesToNextTrack ==
    [][(ReachEnd /\ ~isLooping /\ currentTrackIndex < Len(tracks) - 1) =>
          /\ currentTrackIndex' = currentTrackIndex + 1
          /\ audio'.currentTime = 0]_vars

\* C7 as claimed: when playback reaches the end of the last track while
\* isLooping is off, playback stops, isPlaying is false and the index stays.
C7_LastTrackEndStops ==
    [][(ReachEnd /\ ~isLooping /\ currentTrackIndex = Len(tracks) - 1) =>
          /\ isPlaying' = FALSE
          /\ audio'.paused
          /\ currentTrackIndex' = currentTrackIndex]_vars

\* C8 as claimed: whatever the order of the messages, the stored progress of
\* a job that is not yet terminal never goes down from one update of the map
\* to the next.
C8_ProgressMonotoneAnyOrder ==
    [][\A j \in JobIds :
          (/\ mounted'
           /\ tasks[j] # NoTask /\ ~IsTerminal(tasks[j].status)
           /\ tasks[j].progress # UndefinedProgress
           /\ tasks'[j].progress # UndefinedProgress) =>
          tasks'[j].progress >= tasks[j].progress]_vars

\* C8 amended: as long as the messages of a job arrive with non-decreasing
\* progress, the stored progress of that job never goes down from one update
\* of the map to the next.
C8_ProgressMonotoneInOrder ==
    [][\A j \in JobIds :
          (mounted' /\ tasks[j] # NoTask /\ inOrder'[j]) =>
          tasks'[j].progress >= tasks[j].progress]_vars

\* C8 witness: a second in-order message raised a job that was not terminal.
C8_Witness ==
    \E j \in JobIds :
        /\ mounted
        /\ inOrder[j] /\ repeated[j]
        /\ tasks[j].status = "processing" /\ tasks[j].progress > 0

\* C9 as claimed: the socket only moves connecting -> open -> closed, a
\* message with a terminal status leaves the socket closed, and no message is
\* processed on a socket whose last message was terminal.
C9_ChannelClosesOnTerminal ==
    [][\A j \in JobIds :
          /\ <<ws[j], ws'[j]>> \in
                {<<"none", "none">>, <<"none", "connecting">>,
                 <<"connecting", "connecting">>, <<"connecting", "open">>,
                 <<"connecting", "closed">>, <<"open", "open">>,
                 <<"open", "closed">>, <<"closed", "closed">>}
          /\ \A data \in Messages :
                WsMessage(j, data) =>
                    /\ ~IsTerminal(lastMsg[j].status)
                    /\ IsTerminal(data.status) => ws'[j] = "closed"]_vars

\* C10 as claimed: once the tasks entry of a job is completed or failed, no
\* update of the map changes its status or its progress.
C10_TerminalIsFinal ==
    [][\A j \in JobIds :
          (mounted' /\ IsTerminal(tasks[j].status)) =>
              tasks'[j] = tasks[j]]_vars
\* C11 as claimed: once the AudioProcessor view is unmounted, no socket it
\* opened is connecting or open, none is opened afterwards, and no onmessage
\* handler of it runs.
C11_UnmountReleasesSockets ==
    [][/\ ~mounted' => \A j \in JobIds : ws'[j] \notin {"connecting", "open"}
       /\ ~mounted => \A j \in JobIds, data \in Messages : ~WsMessage(j, data)
      ]_vars
\* C12: after every step of a WaveformVisualizer, at most one WaveSurfer
\* instance is live; a live instance is the one the ref holds, it was loaded
\* with the current audioUrl and the component is mounted; a mounted
\* component with a url has its live instance; and a change of audioUrl to a
\* url leaves a fresh instance (not yet ready) loaded with that url.
C12_OneLiveInstanceForCurrentUrl ==
    [][/\ \A u \in Urls :
             /\ liveInstances'[u] <= 1
             /\ liveInstances'[u] = 1 =>
                    /\ wvMounted' /\ audioUrl' = u
                    /\ wavesurferRef' # NoInstance
                    /\ wavesurferRef'.url = u /\ wavesurferRef'.live
                    /\ \A v \in Urls \ {u} : liveInstances'[v] = 0
       /\ (wvMounted' /\ audioUrl' # NoUrl) => liveInstances'[audioUrl'] = 1
       /\ \A u \in Urls :
             WvUrlChange(u) =>
                 wavesurferRef' = [url |-> u, live |-> TRUE, ready |-> FALSE]
      ]_vars

\* C12 witness: the instance for the vocals url is live and not yet ready
\* while isReady is set, so an earlier instance got ready and was replaced.
C12_Witness ==
    /\ wvMounted /\ audioUrl = "/media/vocals.wav"
    /\ isReady /\ wavesurferRef.live /\ ~wavesurferRef.ready
    /\ liveInstances["/media/vocals.wav"] = 1
    /\ liveInstances["/media/original.wav"] = 0

\* C13: when a mounted view receives a message with status failed and error
\* text e for a job (the step is ws.onmessage on that message, which is then
\* the job's last message), the tasks entry of the job is failed and the toast shown
\* is the Processing Failed toast of that job carrying e; and once a job's
\* socket has delivered a failed message, no connection for the job is opened:
\* the socket stays as it is or closes.
C13_FailureMarkedNotifiedNotRetried ==
    [][\A j \in JobIds :
          /\ (/\ mounted /\ lastMsg'[j].status = "failed"
              /\ WsMessage(j, lastMsg'[j])) =>
                 /\ tasks'[j].status = "failed"
                 /\ lastToast' =
                        Toast("Processing Failed", j, lastMsg'[j].error)
          /\ lastMsg[j].status = "failed" =>
                /\ ws'[j] # "connecting"
                /\ ws'[j] \in {ws[j], "closed"}]_vars

\* C13 witness: a job received {status: failed, error: out of memory} without
\* a progress field, is failed in the map, the toast carries the text, and
\* its socket has closed since.
C13_Witness ==
    \E j \in JobIds :
        /\ mounted
        /\ lastMsg[j].status = "failed"
        /\ lastMsg[j].progress = UndefinedProgress
        /\ tasks[j].status = "failed"
        /\ lastToast = Toast("Processing Failed", j, "out of memory")
        /\ ws[j] = "closed"

\* C14 as claimed: whenever a track is soloed, every other track reaches the
\* output at volume 0 and the soloed track at a volume above 0, whatever the
\* mute flags and the track volumes.
C14_SoloOverridesMute ==
    soloedTrack # NoTrack =>
        /\ \A n \in Names \ {soloedTrack} : OutputVolume(n) = 0
        /\ OutputVolume(soloedTrack) > 0

\* C15: whenever the store holds no access token, the route shown is the login
\* route, never a protected one, also when a protected path was asked for;
\* and right after application start both tokens of the store are the ones
\* localStorage holds.
C15_NoTokenNoProtectedContent ==
    /\ accessToken = Null =>
          (location \notin ProtectedPaths /\ location = LoginPath)
    /\ authEv.op = "start" =>
          /\ accessToken = storage.access_token
          /\ refreshToken = storage.refresh_token

\* C15 witness: after a logout, a navigation to /settings ended on /login.
C15_Witness ==
    /\ authEv = AuthEvent("navigate", "/settings")
    /\ lastRequest # NoRequest
    /\ accessToken = Null /\ storage.refresh_token = Null
    /\ location = LoginPath

\* C16 as claimed: every REST call issued while localStorage holds an access
\* token carries that token as its Authorization header.
C16_EveryRequestCarriesBearer ==
    [][\A op \in Requests :
          (IssueRequest(op) /\ storage.access_token # Null) =>
              lastRequest'.authorization = storage.access_token]_vars

\* C17 as claimed: PlaybackView dereferences a track url only of an entry
\* whose processing status is completed.
C17_UrlsOnlyOfCompletedJobs ==
    dereferenced # {} => entry.processing_status = "completed"

\* the name PlaybackView gives the track of a key of entry.tracks
NameOf(key) ==
    CASE key = "original" -> "Original"
      [] key = "vocals" -> "Vocals"
      [] key = "drums" -> "Drums"
      [] key = "bass" -> "Bass"
      [] key = "other" -> "Other"

\* the tracks array holds, in the order Original, Vocals, Drums, Bass, Other,
\* one track per key of the entry whose url is present, with that url, and
\* nothing else
StemsInFixedOrder ==
    /\ \A i \in 1..Len(playbackTracks) :
          \E k \in StemKeys :
              /\ playbackTracks[i] = Track(NameOf(k), entry.tracks[k])
              /\ entry.tracks[k] # NoUrl
    /\ \A k \in StemKeys :
          entry.tracks[k] # NoUrl =>
              \E i \in 1..Len(playbackTracks) :
                  playbackTracks[i].name = NameOf(k)
    /\ \A i, j \in 1..Len(playbackTracks) :
          i < j =>
              \E a, b \in 1..Len(TrackNames) :
                  /\ a < b
                  /\ TrackNames[a] = playbackTracks[i].name
                  /\ TrackNames[b] = playbackTracks[j].name
    /\ (\A k \in StemKeys : entry.tracks[k] # NoUrl) =>
          [i \in 1..Len(playbackTracks) |-> playbackTracks[i].name]
              = TrackNames

\* C18 as claimed: for any entry shown, the tracks array starts with the
\* Original track, followed by the stems whose url is present, in the fixed
\* order.
C18_OriginalAlwaysFirst ==
    playbackView = "shown" =>
        /\ Len(playbackTracks) >= 1
        /\ playbackTracks[1].name = "Original"
        /\ StemsInFixedOrder

\* C18 amended: for any entry shown, the tracks array holds the tracks whose
\* url is present, in the fixed order; it starts with the Original track if
\* the entry has an original url, and for an entry with all five urls it is
\* Original, Vocals, Drums, Bass, Other.
C18_PresentTracksInFixedOrder ==
    playbackView = "shown" =>
        /\ entry.tracks["original"] # NoUrl =>
              /\ Len(playbackTracks) >= 1
              /\ playbackTracks[1].name = "Original"
        /\ StemsInFixedOrder

\* C18 witness: a completed entry with all four stems is shown with the five
\* tracks.
C18_Witness ==
    /\ playbackView = "shown"
    /\ entry.processing_status = "completed"
    /\ Len(playbackTracks) = 5
    /\ playbackTracks[1] = Track("Original", "/media/original.wav")
    /\ playbackTracks[5] = Track("Other", "/media/other.wav")

\* C19 as claimed: when POST /entries/ is answered non-2xx with field errors
\* in the body, the Upload Failed notification lists those field errors.
C19_FieldErrorsReachNotification ==
    [][\A response \in ErrorResponses :
          (PostFails(response) /\ mounted /\ response.fields # NoFields) =>
              /\ lastToast'.title = "Upload Failed"
              /\ lastToast'.error = response.fields]_vars

\* C20 as claimed: when a socket closes before any terminal message, the
\* tasks map is unchanged and a notification of the loss is shown.
C20_ConnectionLossNotified ==
    [][\A j \in JobIds :
          (WsClosed(j) /\ mounted /\ ~IsTerminal(lastMsg[j].status)) =>
              /\ tasks' = tasks
              /\ lastToast' # lastToast
              /\ lastToast'.job = j]_vars

\* C21 as claimed: every entry of the tasks map has a status among queued,
\* processing, completed, failed and a progress that is a number from 0 to
\* 100, also after a failed message without a progress field.
C21_EntriesWellFormed ==
    \A j \in DOMAIN tasks :
        tasks[j] # NoTask =>
            /\ tasks[j].status \in Statuses
            /\ tasks[j].progress \in 0..100

\* C23: after every step the sockets opened are as many as the POSTs that
\* succeeded; a socket is opened only by a POST that succeeds, which opens
\* exactly one, bound to the id of the new entry; a POST that fails opens
\* none; and a message on the socket of a job changes the tasks entry of no
\* other job.
C23_OneChannelPerJobOwnEntryOnly ==
    [][/\ Cardinality({j \in DOMAIN ws : ws'[j] # "none"}) = nextId' - 1
       /\ PostSucceeds =>
             /\ ws[nextId] = "none" /\ ws'[nextId] = "connecting"
             /\ \A k \in DOMAIN ws \ {nextId} : ws'[k] = ws[k]
       /\ (\E k \in DOMAIN ws : ws[k] = "none" /\ ws'[k] # "none") =>
             PostSucceeds
       /\ \A response \in ErrorResponses : PostFails(response) => ws' = ws
       /\ \A j \in DOMAIN ws :
             (lastMsg'[j] \in Messages /\ WsMessage(j, lastMsg'[j])) =>
                 \A k \in DOMAIN tasks \ {j} : tasks'[k] = tasks[k]
      ]_vars

\* C23 witness: two jobs have their sockets open, job 1 is completed and job
\* 2, which got its message later, is processing.
C23_Witness ==
    /\ DOMAIN ws = {1, 2}
    /\ ws[1] = "open" /\ ws[2] = "open"
    /\ tasks[1] = [progress |-> 100, status |-> "completed"]
    /\ tasks[2] = [progress |-> 0, status |-> "processing"]
    /\ lastToast = Toast("Processing Complete", 1, NoError)

\* C24: on either polling page, a poll that comes back completed, failed or
\* rejected stops the timer of its task; a task whose loop has stopped has no
\* timer running and no poll is issued for it any more; and a poll that comes
\* back with any other status leaves the timer of its task as it is.
C24_PollingStopsOnTerminal ==
    [][\A t \in PollTasks :
          /\ t \in stopped' => t \notin intervals'
          /\ t \in stopped => ~PollTick(t)
          /\ \A outcome \in PollOutcomes :
                PollResponse(t, outcome) =>
                    IF IsTerminalOutcome(outcome)
                    THEN t \in stopped' /\ t \notin intervals'
                    ELSE intervals' = intervals]_vars

\* C24 witness: on the DSP page the loop of task 1 has stopped on completed
\* with a poll of it still unanswered, while the timer of task 2 runs.
C24_Witness ==
    /\ pollPage = "DspUpload"
    /\ 1 \in stopped /\ pollStatus = StatusText("Processing completed!", 1)
    /\ polls[1] > 0
    /\ intervals = {2}

\* C25 as claimed: in FileManager, once the status shown is the completed or
\* failed status of the current task id, no poll that comes back changes the
\* status or the result shown.
C25_NoStaleOverwrite ==
    [][(/\ pollPage = "FileManager"
        /\ pollStatus.task = taskId
        /\ pollStatus.text \in {"Processing completed!", "Processing failed: out of memory"}
        /\ \E t \in PollTasks, outcome \in PollOutcomes :
              PollResponse(t, outcome)) =>
           /\ pollStatus' = pollStatus
           /\ result' = result]_vars

\* C26: the store's accessToken and refreshToken always equal what
\* localStorage holds under access_token and refresh_token, so isAuthenticated
\* is true exactly when an access token is persisted; right after a login or
\* refresh that returned true both tokens are present, right after logout
\* both are absent; and a login or refresh that fails returns false and
\* leaves the tokens, in the store and in localStorage, as they were.
C26_StoreMirrorsStorage ==
    /\ [](/\ accessToken = storage.access_token
          /\ refreshToken = storage.refresh_token
          /\ IsAuthenticated(accessToken) <=> storage.access_token \in Tokens
          /\ (authEv.op \in {"login", "refresh"} /\ authEv.returned) =>
                (accessToken \in Tokens /\ refreshToken \in Tokens)
          /\ authEv.op = "logout" =>
                (storage.access_token = Null /\ storage.refresh_token = Null))
    /\ [][(LoginFails \/ RefreshFails) =>
            /\ authEv'.returned = FALSE
            /\ UNCHANGED <<storage, accessToken, refreshToken>>]_vars

\* C26 witness: a refresh has just failed while tokens are persisted: the
\* session is still authenticated with the tokens of the login.
C26_Witness ==
    /\ authEv.op = "refresh" /\ ~authEv.returned
    /\ accessToken = "tokenA" /\ refreshToken = "tokenB"
    /\ storage = [access_token |-> "tokenA", refresh_token |-> "tokenB"]

\* C27 as claimed: after skip-previous, skip-next or the end of a track the
\* current track index is inside the list, 0..N-1, for a list of N tracks;
\* for the empty list the index is left as it was.
C27_IndexWithinTrackList ==
    [][(SkipBack \/ SkipForward \/ ReachEnd) =>
          IF Len(tracks) = 0
          THEN currentTrackIndex' = currentTrackIndex
          ELSE currentTrackIndex' \in 0..(Len(tracks) - 1)]_vars

\* C28 as claimed: once the play and pause events have been delivered,
\* isPlaying is true exactly when the element is playing.
C28_IsPlayingAgreesWithElement ==
    mediaEvents = <<>> => (isPlaying <=> ~audio.paused)

\* C29: the element's volume is 0 while isMuted and the stored volume
\* otherwise, the stored volume is on the slider's range, and a toggleMute
\* that follows a toggleMute gives the element the volume it had before the
\* first of the two.
C29_ElementVolumeFollowsMute ==
    /\ [](/\ audio.volume = (IF isMuted THEN 0 ELSE volume)
          /\ volume \in 0..VolumeLevels)
    /\ [][(ToggleMute /\ ev.op = "toggleMute") => audio'.volume = ev.pre]_vars

\* C29 witness: mute has been toggled twice in a row on a volume below the
\* maximum, on a track other than the first, and the element is back at the
\* stored volume.
C29_Witness ==
    /\ ev.op = "toggleMute" /\ ~isMuted
    /\ volume = 1 /\ audio.volume = 1
    /\ currentTrackIndex = 1

\* C30 as claimed: every seekTo is issued on an instance that has fired its
\* own ready event.
C30_SeekOnlyAfterOwnReady ==
    lastSeek # NoSeek => lastSeek.ready

\* C22 as claimed: after the waveform's interaction handler has set the
\* transport's current time, the ratio the seek effect computes from the
\* current time and a positive duration lies in [0,1], the current time is
\* not NaN, and with a duration of 0 the current time set is 0.
C22_SeekRatioWithinUnitInterval ==
    [][(\E k \in 0..SeekSteps : Interaction(k)) =>
          /\ currentTime' # NaN
          /\ duration' > 0 => (0 <= currentTime' /\ currentTime' <= duration')
          /\ duration' = 0 => currentTime' = 0]_vars
====
